---- MODULE Spec2Model ----
(***************************************************************************)
(* A model of kagi_bridge_mcp/server.py: the BrowserSearchClient session   *)
(* (construction, initialize, search, close), the search tool with its     *)
(* retry loop, format_search_results, cleanup with the atexit hook and the *)
(* signal handlers, get_event_loop/run_async run by several threads, and   *)
(* concurrent search calls on the one background loop.                     *)
(*                                                                         *)
(* Python values are tagged records: None is [ty |-> "NoneType"], a str is *)
(* [ty |-> "str", v |-> ...], a dict is [ty |-> "dict", items |-> ...].    *)
(* A Python str that is shown to the caller (the tool's return value) is a *)
(* sequence of lines, each line the sequence of the string fragments that  *)
(* str.format() / the f-string put side by side.                           *)
(***************************************************************************)
EXTENDS Integers, Sequences, FiniteSets, TLC

VARIABLES
    environ,        \* os.environ.get("SESSION_TOKEN"): None or a str
    search_client,  \* the global search_client: None or a BrowserSearchClient
    loop,           \* the global _loop: "None", "running" or "stopped"
    orphans,        \* browsers launched, never closed, and no longer referenced
    call,           \* the search tool call in progress (position and locals)
    last,           \* the last BrowserSearchClient method run: what it did
    fmt,            \* format_search_results applied on its own: input, output
    proc,           \* the process: running or exiting, and what cleanup() did
    host,           \* get_event_loop/run_async run by caller threads: the loops
                    \* and worker threads they made, each caller's position
    tasks           \* search_all coroutines of concurrent calls: their positions

vars == <<environ, search_client, loop, orphans, call, last, fmt, proc, host, tasks>>

(* ------------------------------ bounds -------------------------------- *)

\* longest query list of one search call
MaxQueries == 2
\* most browsers that may be left running unreferenced before launches stop
MaxOrphans == 2
\* most result records over all responses given to format_search_results
MaxRecords == 3
\* the caller threads that use the tool at the same time
NumCallers == 2

Callers == 1..NumCallers

(* --------------------------- Python values ---------------------------- *)

None == [ty |-> "NoneType"]

PyStr(s) == [ty |-> "str", v |-> s]

PyDict(items) == [ty |-> "dict", items |-> items]

\* bool(v) of a None, a str, a dict or an object
Truthy(v) ==
    CASE v.ty = "NoneType" -> FALSE
      [] v.ty = "str" -> v.v # ""
      [] v.ty = "dict" -> DOMAIN v.items # {}
      [] OTHER -> TRUE

\* str(v), as str.format() and f-strings apply it
Str(v) ==
    CASE v.ty = "NoneType" -> "None"
      [] v.ty = "str" -> v.v
      [] OTHER -> "<" \o v.ty \o ">"

Exception(cls, msg) == [ty |-> "exception", cls |-> cls, msg |-> msg]

\* the classes that "except Exception" catches
ExceptionClasses == {"ValueError", "KeyError", "Error", "TimeoutError"}

(* ------------------------ BrowserSearchClient ------------------------- *)

TokenUrl(token) == "https://kagi.com/search?token=" \o token

\* BrowserSearchClient.__init__(url): the new object, or the exception raised
BrowserSearchClient(url) ==
    LET token == IF Truthy(environ) THEN environ.v ELSE ""
        self_url == IF ~Truthy(url) THEN PyStr(TokenUrl(token)) ELSE url
    IN  IF ~Truthy(self_url)
        THEN Exception("ValueError", "Search URL must be provided either in constructor or as SESSION_TOKEN environment variable")
        ELSE [ty |-> "BrowserSearchClient", url |-> self_url,
              browser |-> None, context |-> None]

\* what the browser does to one call of initialize()
InitOutcomes == {"ok", "launch_fail", "context_fail", "auth_fail"}

NewBrowser == [ty |-> "Browser", open |-> TRUE]

NewContext == [ty |-> "BrowserContext", open |-> TRUE, authed |-> FALSE]

\* the handle h is a browser or context that is still open
IsOpen(h) == Truthy(h) /\ h.open

\* The result of a method: the object after it, the exception it raised (or
\* None), the value it returned, the browser operations it issued in order,
\* and how many running browsers it left unreferenced.
Result(self, exc, value, trace, leaked) ==
    [self |-> self, exc |-> exc, value |-> value, trace |-> trace, leaked |-> leaked]

\* BrowserSearchClient.initialize()
initialize(self, outcome) ==
    IF outcome = "launch_fail"
    THEN Result(self, Exception("Error", "Executable doesn't exist"), None, <<"launch!">>, 0)
    ELSE
    LET leaked == IF IsOpen(self.browser) THEN 1 ELSE 0
        s1 == [self EXCEPT !.browser = NewBrowser]
    IN  IF outcome = "context_fail"
        THEN Result(s1, Exception("Error", "Browser has been closed"), None,
                    <<"launch", "new_context!">>, leaked)
        ELSE
        LET s2 == [s1 EXCEPT !.context = NewContext]
            opened == <<"launch", "new_context", "new_page">>
        IN  IF s2.url.ty = "dict" /\ "url" \notin DOMAIN s2.url.items
            THEN Result(s2, Exception("ValueError", "Invalid URL object"), None,
                        opened \o <<"page_close">>, leaked)
            ELSE
            LET s3 == IF s2.url.ty = "dict"
                      THEN [s2 EXCEPT !.url = s2.url.items.url]
                      ELSE s2
            IN  IF outcome = "auth_fail"
                THEN Result(s3, Exception("TimeoutError", "Timeout 30000ms exceeded."), None,
                            opened \o <<"goto_auth!", "page_close">>, leaked)
                ELSE Result([s3 EXCEPT !.context.authed = TRUE], None, None,
                            opened \o <<"goto_auth", "page_close">>, leaked)

\* what a library build does when close() is called on a closed handle
CloseOutcomes == {"ok", "raise"}

\* BrowserSearchClient.close()
close(self, outcome) ==
    LET ctx == Truthy(self.context)
        ctxTrace == IF ~ctx THEN <<>>
                    ELSE IF self.context.open THEN <<"context_close">>
                    ELSE <<"context_close_on_closed">>
        s1 == IF ctx THEN [self EXCEPT !.context.open = FALSE] ELSE self
    IN  IF ctx /\ ~self.context.open /\ outcome = "raise"
        THEN Result(s1, Exception("Error", "Target page, context or browser has been closed"),
                    None, ctxTrace, 0)
        ELSE
        LET br == Truthy(s1.browser)
            brTrace == IF ~br THEN <<>>
                       ELSE IF s1.browser.open THEN <<"browser_close">>
                       ELSE <<"browser_close_on_closed">>
            s2 == IF br THEN [s1 EXCEPT !.browser.open = FALSE] ELSE s1
        IN  IF br /\ ~s1.browser.open /\ outcome = "raise"
            THEN Result(s2, Exception("Error", "Target page, context or browser has been closed"),
                        None, ctxTrace \o brTrace, 0)
            ELSE Result(s2, None, None, ctxTrace \o brTrace, 0)

\* page.evaluate()'s records: t, title, url, snippet and published
Record(t, title, published) ==
    [t |-> t, title |-> title, url |-> "https://r.example/" \o title,
     snippet |-> "about " \o title, published |-> published]

\* a record as the test's mock gives it: no published key
RecordNoPublished(t, title) ==
    [t |-> t, title |-> title, url |-> "https://r.example/" \o title,
     snippet |-> "about " \o title]

\* a record of unusable shape: no snippet
RecordNoSnippet(t, title) ==
    [t |-> t, title |-> title, url |-> "https://r.example/" \o title]

\* what a query page does: goto, the network-idle wait or evaluate raises, or
\* page.evaluate() returns a list of records
PageFail == [ty |-> "raise"]

PageList(records) == [ty |-> "list", v |-> records]

\* "if not self.browser or not self.context"
NotInitialized(self) == ~Truthy(self.browser) \/ ~Truthy(self.context)

\* a search() whose page.close() is not in a finally clause: a failing query
\* page stays open
searchNoFinally(self, query, initOutcome, page) ==
    LET init == IF NotInitialized(self) THEN initialize(self, initOutcome)
                ELSE Result(self, None, None, <<>>, 0)
        s1 == init.self
    IN  IF Truthy(init.exc) THEN init
        ELSE IF ~s1.context.open
        THEN Result(s1, Exception("Error", "Target page, context or browser has been closed"),
                    None, init.trace \o <<"new_page_on_closed">>, init.leaked)
        ELSE IF page.ty = "raise"
        THEN Result(s1, Exception("Error", "net::ERR_CONNECTION_RESET"), None,
                    init.trace \o <<"new_page", "goto_query!">>, init.leaked)
        ELSE Result(s1, None, [data |-> page.v],
                    init.trace \o <<"new_page", "goto_query", "evaluate", "page_close">>,
                    init.leaked)

\* BrowserSearchClient.search(query): initOutcome is what the browser does to a
\* lazy initialize(), page is what the query page does
search(self, query, initOutcome, page) ==
    LET init == IF NotInitialized(self) THEN initialize(self, initOutcome)
                ELSE Result(self, None, None, <<>>, 0)
        s1 == init.self
    IN  IF Truthy(init.exc) THEN init
        ELSE IF ~s1.context.open
        THEN Result(s1, Exception("Error", "Target page, context or browser has been closed"),
                    None, init.trace \o <<"new_page_on_closed">>, init.leaked)
        ELSE IF page.ty = "raise"
        THEN Result(s1, Exception("Error", "net::ERR_CONNECTION_RESET"), None,
                    init.trace \o <<"new_page", "goto_query!", "page_close">>, init.leaked)
        ELSE Result(s1, None, [data |-> page.v],
                    init.trace \o <<"new_page", "goto_query", "evaluate", "page_close">>,
                    init.leaked)

(* ----------------------- format_search_results ------------------------ *)

\* a line of text: the fragments that str.format() puts side by side
RuleLine == <<"-----">>

BannerLine(query) == <<"Results for search query \"", query, "\":">>

BlankLine == <<>>

\* "\n\n".join(strs), each str a sequence of lines; "" is one empty line
RECURSIVE JoinBlank(_)
JoinBlank(strs) ==
    IF strs = <<>> THEN <<BlankLine>>
    ELSE IF Len(strs) = 1 THEN strs[1]
    ELSE strs[1] \o <<BlankLine>> \o JoinBlank(Tail(strs))

\* result.get("published", "Not Available")
GetPublished(result) ==
    IF "published" \in DOMAIN result THEN result.published ELSE PyStr("Not Available")

\* result_template.format(...) of one result
FormatResult(result_number, result) ==
    << <<ToString(result_number), ": ", result.title>>,
       <<result.url>>,
       <<"Published Date: ", Str(GetPublished(result))>>,
       <<result.snippet>> >>

\* [result for result in response["data"] if result["t"] == 0]
OrganicResults(response) == SelectSeq(response.data, LAMBDA result : result.t = 0)

\* the keys that result_template.format() reads with result[...]
RequiredKeys == {"title", "url", "snippet"}

\* a formatter that leaves out the banner of a query without results
FormatQuerySkipEmpty(query, results, start_index) ==
    IF results = <<>> THEN <<BlankLine>>
    ELSE <<RuleLine, BannerLine(query), RuleLine>>
         \o JoinBlank([k \in 1..Len(results) |-> FormatResult(start_index + k - 1, results[k])])

\* query_response_template.format(...) of one query and its results
FormatQuery(query, results, start_index) ==
    <<RuleLine, BannerLine(query), RuleLine>>
    \o JoinBlank([k \in 1..Len(results) |-> FormatResult(start_index + k - 1, results[k])])

\* a counter that starts again at 1 for every query
NextStartIndexReset(start_index, results) == 1

\* start_index += len(results)
NextStartIndex(start_index, results) == start_index + Len(results)

\* the loop over zip(queries, responses): per_query_response_strs
RECURSIVE FormatQueries(_, _, _)
FormatQueries(queries, responses, start_index) ==
    IF queries = <<>> \/ responses = <<>> THEN <<>>
    ELSE LET results == OrganicResults(Head(responses))
         IN  <<FormatQuery(Head(queries), results, start_index)>>
             \o FormatQueries(Tail(queries), Tail(responses),
                              NextStartIndex(start_index, results))

Min(a, b) == IF a < b THEN a ELSE b

\* format_search_results(queries, responses): the text, or the KeyError of a
\* result that lacks a key the template reads
format_search_results(queries, responses) ==
    LET n == Min(Len(queries), Len(responses))
        bad == \E i \in 1..n : \E k \in 1..Len(responses[i].data) :
                  /\ responses[i].data[k].t = 0
                  /\ ~(RequiredKeys \subseteq DOMAIN responses[i].data[k])
    IN  IF bad THEN [exc |-> Exception("KeyError", "'snippet'"), value |-> <<>>]
        ELSE [exc |-> None, value |-> JoinBlank(FormatQueries(queries, responses, 1))]

(* ------------------------- the search tool ---------------------------- *)

\* max_retries
max_retries == 3

\* str(e) or repr(e)
StrOrRepr(e) == IF e.msg # "" THEN e.msg ELSE e.cls \o "()"

\* a handler that catches ValueError only ("except ValueError as e")
except_ValueError(e) ==
    IF e.cls = "ValueError"
    THEN [pc |-> "returned", ret |-> << <<"Error: ", StrOrRepr(e)>> >>]
    ELSE [pc |-> "raised", ret |-> <<>>]

\* "except Exception as e" of search: the caught exception becomes the
\* returned error string; one it does not catch leaves the tool
except_Exception(e) ==
    IF e.cls \in ExceptionClasses
    THEN [pc |-> "returned", ret |-> << <<"Error: ", StrOrRepr(e)>> >>]
    ELSE [pc |-> "raised", ret |-> <<>>]

\* no search call in progress
Idle ==
    [pc |-> "idle", queries |-> <<>>, i |-> 0, attempt |-> 0, results |-> <<>>,
     failed |-> <<>>, submitted |-> FALSE, exc |-> None, ret |-> <<>>,
     ops |-> <<>>]

\* the call ends in the except clause with exception e
Caught(c, e) ==
    LET h == except_Exception(e)
    IN  [c EXCEPT !.pc = h.pc, !.exc = e, !.ret = h.ret]

\* the query lists a caller may pass
Alphabet == {"a", "b"}

QueryLists == UNION {[1..n -> Alphabet] : n \in 0..MaxQueries}

\* the search URL that search() builds from the environment, or None
EnvSearchUrl ==
    IF Truthy(environ) THEN PyStr(TokenUrl(environ.v)) ELSE None

\* a search() that creates its client before it looks at the queries
SearchEnterCreateFirst(queries) ==
    LET c == [Idle EXCEPT !.queries = queries, !.failed = [j \in 1..Len(queries) |-> 0]]
        client == IF ~Truthy(search_client) /\ Truthy(EnvSearchUrl)
                  THEN BrowserSearchClient(EnvSearchUrl)
                  ELSE search_client
    IN  IF ~Truthy(client)
        THEN [call |-> Caught(c, Exception("ValueError", "No SESSION_TOKEN found in environment variables.")),
              client |-> search_client]
        ELSE IF queries = <<>>
        THEN [call |-> Caught(c, Exception("ValueError", "Search called with no queries.")),
              client |-> client]
        ELSE [call |-> [c EXCEPT !.pc = "initialize", !.submitted = TRUE],
              client |-> client]

\* the steps of search() before run_async: the queries check and the creation
\* of the client; the call's state after them and the client after them
SearchEnter(queries) ==
    LET c == [Idle EXCEPT !.queries = queries, !.failed = [j \in 1..Len(queries) |-> 0]]
    IN  IF queries = <<>>
        THEN [call |-> Caught(c, Exception("ValueError", "Search called with no queries.")),
              client |-> search_client]
        ELSE IF Truthy(search_client)
        THEN [call |-> [c EXCEPT !.pc = "initialize", !.submitted = TRUE],
              client |-> search_client]
        ELSE IF ~Truthy(EnvSearchUrl)
        THEN [call |-> Caught(c, Exception("ValueError", "No SESSION_TOKEN found in environment variables.")),
              client |-> search_client]
        ELSE LET new == BrowserSearchClient(EnvSearchUrl)
             IN  IF new.ty = "exception"
                 THEN [call |-> Caught(c, new), client |-> search_client]
                 ELSE [call |-> [c EXCEPT !.pc = "initialize", !.submitted = TRUE],
                       client |-> new]

\* what the call's ops keeps of a method that search_all awaited
Op(op, i, r) == [op |-> op, i |-> i, ok |-> ~Truthy(r.exc)]

\* the call after search_all awaited a method
Awaited(c, op, i, r) == [c EXCEPT !.ops = Append(@, Op(op, i, r))]

\* what `last` keeps of a method call
Did(op, arg, pre, r) ==
    [op |-> op, arg |-> arg, pre |-> pre, trace |-> r.trace, exc |-> r.exc]

NoOp == [op |-> "none", arg |-> None, pre |-> None, trace |-> <<>>, exc |-> None]

\* an initialize() that launches may leave one more browser unreferenced
MayLaunch(self, outcome) ==
    outcome = "launch_fail" \/ ~IsOpen(self.browser) \/ orphans < MaxOrphans

\* search(queries) is called: lines 238-253, and run_async(search_all())
\* submits the coroutine to the background loop (created on first use)
Search(queries) ==
    /\ call.pc = "idle"
    /\ LET e == SearchEnter(queries)
       IN  /\ call' = e.call
           /\ search_client' = e.client
           /\ loop' = IF e.call.submitted THEN "running" ELSE loop
    /\ UNCHANGED <<environ, orphans, last, fmt, proc, host, tasks>>

\* search_all: await search_client.initialize() before the loop
SearchAllInitialize(outcome) ==
    /\ call.pc = "initialize"
    /\ MayLaunch(search_client, outcome)
    /\ LET r == initialize(search_client, outcome)
       IN  /\ search_client' = r.self
           /\ orphans' = orphans + r.leaked
           /\ last' = Did("initialize", None, search_client, r)
           /\ call' = LET c0 == Awaited(call, "initialize", 0, r)
                      IN  IF Truthy(r.exc) THEN Caught(c0, r.exc)
                          ELSE [c0 EXCEPT !.pc = "attempt", !.i = 1, !.attempt = 0]
    /\ UNCHANGED <<environ, loop, fmt, proc, host, tasks>>

\* the shapes of record that a page yields
Shapes == {"dated", "null", "absent", "related", "nosnippet"}

\* the title of record k of the page answering the i-th query of a call
Title(i, k) == "r" \o ToString(i) \o "." \o ToString(k)

MakeRecord(shape, title) ==
    CASE shape = "dated" -> Record(0, title, PyStr("2024-05-01"))
      [] shape = "null" -> Record(0, title, None)
      [] shape = "absent" -> RecordNoPublished(0, title)
      [] shape = "related" -> Record(1, title, None)
      [] OTHER -> RecordNoSnippet(0, title)

\* the records of the page answering query i, of the given shapes
MakePage(i, shapes) == [k \in 1..Len(shapes) |-> MakeRecord(shapes[k], Title(i, k))]

\* the pages the search tool meets in the model
PageShapes ==
    { <<>>, <<"related", "null">>, <<"absent", "dated">>, <<"nosnippet">> }

Pages(i) == {PageFail} \cup {PageList(MakePage(i, sh)) : sh \in PageShapes}

\* a retry loop that re-raises one attempt late ("attempt == max_retries")
LastAttemptLate(attempt) == attempt = max_retries

\* a retry loop that never re-raises
LastAttemptNever(attempt) == FALSE

\* "if attempt == max_retries - 1": the last attempt re-raises
LastAttempt(attempt) == attempt = max_retries - 1

\* search_all: one pass of the retry loop's try block, search_client.search(query)
SearchAllAttempt(initOutcome, page) ==
    /\ call.pc = "attempt"
    /\ NotInitialized(search_client) => MayLaunch(search_client, initOutcome)
    /\ LET r == search(search_client, call.queries[call.i], initOutcome, page)
       IN  /\ search_client' = r.self
           /\ orphans' = orphans + r.leaked
           /\ last' = Did("search", PyStr(call.queries[call.i]), search_client, r)
           /\ call' =
                IF ~Truthy(r.exc)
                THEN LET c == [Awaited(call, "search", call.i, r)
                                 EXCEPT !.results = Append(@, r.value)]
                     IN  IF call.i = Len(call.queries)
                         THEN [c EXCEPT !.pc = "format"]
                         ELSE [c EXCEPT !.i = @ + 1, !.attempt = 0]
                ELSE LET c == [Awaited(call, "search", call.i, r)
                                 EXCEPT !.failed[call.i] = @ + 1]
                     IN  IF LastAttempt(call.attempt)
                         THEN Caught(c, r.exc)
                         ELSE [c EXCEPT !.pc = "close"]
    /\ UNCHANGED <<environ, loop, fmt, proc, host, tasks>>

\* search_all: await search_client.close() in the except block
SearchAllClose(outcome) ==
    /\ call.pc = "close"
    /\ LET r == close(search_client, outcome)
       IN  /\ search_client' = r.self
           /\ last' = Did("close", None, search_client, r)
           /\ call' = LET c0 == Awaited(call, "close", 0, r)
                      IN  IF Truthy(r.exc) THEN Caught(c0, r.exc)
                          ELSE [c0 EXCEPT !.pc = "reinitialize"]
    /\ UNCHANGED <<environ, loop, orphans, fmt, proc, host, tasks>>

\* search_all: await search_client.initialize() in the except block
SearchAllReinitialize(outcome) ==
    /\ call.pc = "reinitialize"
    /\ MayLaunch(search_client, outcome)
    /\ LET r == initialize(search_client, outcome)
       IN  /\ search_client' = r.self
           /\ orphans' = orphans + r.leaked
           /\ last' = Did("initialize", None, search_client, r)
           /\ call' = LET c0 == Awaited(call, "initialize", 0, r)
                      IN  IF Truthy(r.exc) THEN Caught(c0, r.exc)
                          ELSE [c0 EXCEPT !.pc = "attempt", !.attempt = @ + 1]
    /\ UNCHANGED <<environ, loop, fmt, proc, host, tasks>>

\* run_async returns the results and search returns format_search_results(...)
Format ==
    /\ call.pc = "format"
    /\ LET f == format_search_results(call.queries, call.results)
       IN  call' = IF Truthy(f.exc) THEN Caught(call, f.exc)
                   ELSE [call EXCEPT !.pc = "returned", !.ret = f.value]
    /\ UNCHANGED <<environ, search_client, loop, orphans, last, fmt, proc, host, tasks>>

\* the caller has the return value; the tool is ready for the next call
Return ==
    /\ call.pc = "returned"
    /\ call' = Idle
    /\ UNCHANGED <<environ, search_client, loop, orphans, last, fmt, proc, host, tasks>>

\* the process runs and cleanup() has not been called
Running ==
    [pc |-> "running", cleanups |-> 0, close_runs |-> 0, seen |-> {},
     escaped |-> FALSE, blocked |-> FALSE]

\* no caller thread has used the background loop yet
NoHost ==
    [loop |-> 0, loops |-> <<>>, workers |-> <<>>,
     callers |-> [c \in Callers |-> [pc |-> "idle", loop |-> 0]]]

\* no concurrent call has started
NoTasks == [c \in Callers |-> [pc |-> "idle", attempt |-> 0]]

NoFormat == [queries |-> <<>>, responses |-> <<>>, done |-> FALSE, exc |-> None, out |-> <<>>]

Tokens == {None, PyStr(""), PyStr("tok")}

Init ==
    /\ environ \in Tokens
    /\ search_client = None
    /\ loop = "None"
    /\ orphans = 0
    /\ call = Idle
    /\ last = NoOp
    /\ fmt = NoFormat
    /\ proc = Running
    /\ host = NoHost
    /\ tasks = NoTasks

Next ==
    \/ \E queries \in QueryLists : Search(queries)
    \/ \E outcome \in InitOutcomes : SearchAllInitialize(outcome)
    \/ \E outcome \in InitOutcomes : \E page \in Pages(call.i) :
          SearchAllAttempt(outcome, page)
    \/ \E outcome \in CloseOutcomes : SearchAllClose(outcome)
    \/ \E outcome \in InitOutcomes : SearchAllReinitialize(outcome)
    \/ Format
    \/ Return

Spec == Init /\ [][Next]_vars

(* -------------- BrowserSearchClient used directly (tests) ------------- *)

\* the url arguments a caller may construct the client with
UrlArgs ==
    { None, PyStr(""), PyStr("https://example.com/token"),
      PyDict([url |-> PyStr("https://example.com/token")]),
      PyDict([other |-> PyStr("x")]) }

\* the pages a directly used client meets
ClientPages == {PageFail, PageList(<<>>), PageList(MakePage(1, <<"absent">>))}

\* client = BrowserSearchClient(url)
Construct(url) ==
    /\ IsOpen(IF Truthy(search_client) THEN search_client.browser ELSE None)
          => orphans < MaxOrphans
    /\ LET new == BrowserSearchClient(url)
           dropped == IF Truthy(search_client) /\ IsOpen(search_client.browser)
                      THEN 1 ELSE 0
       IN  IF new.ty = "exception"
           THEN /\ last' = [op |-> "__init__", arg |-> url, pre |-> search_client,
                            trace |-> <<>>, exc |-> new]
                /\ UNCHANGED <<search_client, orphans>>
           ELSE /\ last' = [op |-> "__init__", arg |-> url, pre |-> search_client,
                            trace |-> <<>>, exc |-> None]
                /\ search_client' = new
                /\ orphans' = orphans + dropped
    /\ UNCHANGED <<environ, loop, call, fmt, proc, host, tasks>>

\* await client.initialize()
ClientInitialize(outcome) ==
    /\ Truthy(search_client)
    /\ MayLaunch(search_client, outcome)
    /\ LET r == initialize(search_client, outcome)
       IN  /\ search_client' = r.self
           /\ orphans' = orphans + r.leaked
           /\ last' = Did("initialize", None, search_client, r)
    /\ UNCHANGED <<environ, loop, call, fmt, proc, host, tasks>>

\* await client.search(query)
ClientSearch(query, initOutcome, page) ==
    /\ Truthy(search_client)
    /\ NotInitialized(search_client) => MayLaunch(search_client, initOutcome)
    /\ LET r == search(search_client, query, initOutcome, page)
       IN  /\ search_client' = r.self
           /\ orphans' = orphans + r.leaked
           /\ last' = Did("search", PyStr(query), search_client, r)
    /\ UNCHANGED <<environ, loop, call, fmt, proc, host, tasks>>

\* await client.close()
ClientClose(outcome) ==
    /\ Truthy(search_client)
    /\ LET r == close(search_client, outcome)
       IN  /\ search_client' = r.self
           /\ last' = Did("close", None, search_client, r)
    /\ UNCHANGED <<environ, loop, orphans, call, fmt, proc, host, tasks>>

NextClient ==
    \/ \E url \in UrlArgs : Construct(url)
    \/ \E outcome \in InitOutcomes : ClientInitialize(outcome)
    \/ \E query \in Alphabet : \E outcome \in InitOutcomes : \E page \in ClientPages :
          ClientSearch(query, outcome, page)
    \/ \E outcome \in CloseOutcomes : ClientClose(outcome)

SpecClient == Init /\ [][NextClient]_vars

(* ---------------- format_search_results on its own -------------------- *)

\* the sequences of at most m shapes
ShapeSeqs(m) == UNION {[1..k -> Shapes] : k \in 0..m}

\* the lists of n shape sequences that hold at most m shapes together
RECURSIVE ShapeLists(_, _)
ShapeLists(n, m) ==
    IF n = 0 THEN {<<>>}
    ELSE UNION { {<<sh>> \o rest : rest \in ShapeLists(n - 1, m - Len(sh))} :
                 sh \in ShapeSeqs(m) }

\* the responses of the given shapes, response i answering query i
MakeResponses(shapeList) ==
    [i \in 1..Len(shapeList) |-> [data |-> MakePage(i, shapeList[i])]]

InitFormat ==
    /\ environ = None
    /\ search_client = None
    /\ loop = "None"
    /\ orphans = 0
    /\ call = Idle
    /\ last = NoOp
    /\ proc = Running
    /\ host = NoHost
    /\ tasks = NoTasks
    /\ \E n \in 1..MaxQueries : \E queries \in [1..n -> Alphabet] :
          \E shapeList \in ShapeLists(n, MaxRecords) :
             fmt = [NoFormat EXCEPT !.queries = queries,
                                    !.responses = MakeResponses(shapeList)]

\* text = format_search_results(queries, responses)
FormatAlone ==
    /\ ~fmt.done
    /\ LET f == format_search_results(fmt.queries, fmt.responses)
       IN  fmt' = [fmt EXCEPT !.done = TRUE, !.exc = f.exc, !.out = f.value]
    /\ UNCHANGED <<environ, search_client, loop, orphans, call, last, proc, host, tasks>>

NextFormat == FormatAlone

SpecFormat == InitFormat /\ [][NextFormat]_vars

(* ----------------------- reading a returned text ---------------------- *)

\* the text is an error string: it starts with "Error: "
IsErrorString(text) ==
    Len(text) >= 1 /\ Len(text[1]) >= 1 /\ text[1][1] = "Error: "

\* line l is the first line of a rendered result, "<number>: <title>"
IsHeadLine(l) == Len(l) = 3 /\ l[2] = ": "

IsPublishedLine(l) == Len(l) = 2 /\ l[1] = "Published Date: "

\* a query banner starts at line p of the text
BannerAt(text, p) ==
    /\ p + 2 <= Len(text)
    /\ text[p] = RuleLine
    /\ text[p + 2] = RuleLine
    /\ Len(text[p + 1]) = 3
    /\ text[p + 1][1] = "Results for search query \""
    /\ text[p + 1][3] = "\":"

BannerPositions(text) == {p \in 1..Len(text) : BannerAt(text, p)}

\* the text is a formatted result block: it starts with a query banner
IsResultText(text) == BannerAt(text, 1)

\* where the b-th banner of the text starts
BannerStart(text, b) ==
    CHOOSE p \in BannerPositions(text) :
        Cardinality({q \in BannerPositions(text) : q < p}) = b - 1

\* the lines of the b-th block: from its banner to the line before the next
BlockLines(text, b) ==
    LET n == Cardinality(BannerPositions(text))
        from == BannerStart(text, b)
        to == IF b < n THEN BannerStart(text, b + 1) - 1 ELSE Len(text)
    IN  SubSeq(text, from, to)

\* the number that a head line displays
DisplayedNumber(text, l) == CHOOSE n \in 0..Len(text) : ToString(n) = l[1]

HeadLines(text) == SelectSeq(text, IsHeadLine)

DisplayedIndices(text) ==
    [k \in 1..Len(HeadLines(text)) |-> DisplayedNumber(text, HeadLines(text)[k])]

DisplayedTitles(text) ==
    [k \in 1..Len(HeadLines(text)) |-> HeadLines(text)[k][3]]

PublishedLines(text) == SelectSeq(text, IsPublishedLine)

\* the organic records (t = 0) of the responses, in order
RECURSIVE AllOrganic(_)
AllOrganic(responses) ==
    IF responses = <<>> THEN <<>>
    ELSE SelectSeq(Head(responses).data, LAMBDA r : r.t = 0)
         \o AllOrganic(Tail(responses))

TitlesOf(records) == [k \in 1..Len(records) |-> records[k].title]

HasRelated(responses) ==
    \E i \in 1..Len(responses) : \E k \in 1..Len(responses[i].data) :
        responses[i].data[k].t # 0

(* ------------------------------ claims -------------------------------- *)

\* C1: a search call never ends with an exception leaving the tool; whatever
\* fails inside it, the value it returns is the formatted result block or a
\* string that starts with "Error: ".
C1_NeverRaises ==
    /\ call.pc # "raised"
    /\ call.pc = "returned" => IsErrorString(call.ret) \/ IsResultText(call.ret)

\* C1 witness: the formatter failed (KeyError) and the call returned an error string
C1_Witness ==
    /\ call.pc = "returned"
    /\ call.exc.ty = "exception" /\ call.exc.cls = "KeyError"
    /\ IsErrorString(call.ret)

\* C2: the numbers displayed by format_search_results, read in output order,
\* are 1..K for the K organic results of all responses, and the results shown
\* are exactly the organic ones, in order; related records take no number.
C2_RunningCounter ==
    fmt.done /\ ~Truthy(fmt.exc) =>
        LET organic == AllOrganic(fmt.responses)
            shown == DisplayedIndices(fmt.out)
        IN  /\ Len(shown) = Len(organic)
            /\ \A k \in 1..Len(shown) : shown[k] = k
            /\ DisplayedTitles(fmt.out) = TitlesOf(organic)

\* C2 witness: two queries, both with organic results, and a related record
C2_Witness ==
    /\ fmt.done /\ ~Truthy(fmt.exc)
    /\ Len(fmt.queries) = 2
    /\ \A i \in 1..2 : OrganicResults(fmt.responses[i]) # <<>>
    /\ HasRelated(fmt.responses)
    /\ DisplayedIndices(fmt.out) = <<1, 2>>

\* C3: once a query has failed max_retries times the call is over: it has
\* returned an error string that holds no result, and no later query was or
\* will be attempted.
C3_ExhaustionAborts ==
    \A i \in 1..Len(call.queries) :
        call.failed[i] = max_retries =>
            /\ call.pc = "returned"
            /\ IsErrorString(call.ret)
            /\ Len(call.ret) = 1 /\ HeadLines(call.ret) = <<>>
            /\ Len(call.results) < i
            /\ \A j \in (i + 1)..Len(call.queries) : call.failed[j] = 0

\* C3 witness: the first query succeeded, the second failed three times
C3_Witness ==
    /\ Len(call.queries) = 2
    /\ call.failed[2] = max_retries
    /\ Len(call.results) = 1
    /\ call.pc = "returned"

\* C4 (as claimed): a call returns an error for a navigation, authentication or
\* extraction failure only after some query has failed max_retries times.
C4_RetriedUpToBound ==
    ( /\ call.pc = "returned"
      /\ call.exc.ty = "exception"
      /\ call.exc.cls \in {"Error", "TimeoutError"} )
    => \E i \in 1..Len(call.queries) : call.failed[i] = max_retries

\* C5: a call with an empty query list returns the no-queries error string and
\* does nothing else: no client is constructed, nothing is submitted to the
\* background loop, and the session is as it was.
C5_EmptyQueries ==
    [][ (call.pc = "idle" /\ call'.pc # "idle" /\ call'.queries = <<>>) =>
          /\ call'.pc = "returned"
          /\ call'.ret = << <<"Error: ", "Search called with no queries.">> >>
          /\ ~call'.submitted
          /\ UNCHANGED <<search_client, loop, orphans, last>> ]_vars

\* C5 witness: an empty call has returned its error while no client exists yet
\* and a token is there to build one from
C5_Witness ==
    /\ call.pc = "returned"
    /\ call.queries = <<>>
    /\ IsErrorString(call.ret)
    /\ ~Truthy(search_client)
    /\ Truthy(environ)

\* C6: when a call with N queries succeeds, results holds N responses, the i-th
\* the page of query i, and the text has N banner blocks in input order, block
\* i naming query i and showing the organic results of query i only; a query
\* without organic results has an empty block.
C6_AlignedBlocks ==
    call.pc = "returned" /\ ~IsErrorString(call.ret) =>
        LET n == Len(call.queries)
        IN  /\ Len(call.results) = n
            /\ \A i \in 1..n : \A k \in 1..Len(call.results[i].data) :
                   call.results[i].data[k].title = Title(i, k)
            /\ Cardinality(BannerPositions(call.ret)) = n
            /\ \A i \in 1..n :
                   /\ call.ret[BannerStart(call.ret, i) + 1][2] = call.queries[i]
                   /\ DisplayedTitles(BlockLines(call.ret, i))
                        = TitlesOf(OrganicResults(call.results[i]))

\* C6 witness: two queries, the first without organic results, the second with
C6_Witness ==
    /\ call.pc = "returned" /\ ~IsErrorString(call.ret)
    /\ Len(call.queries) = 2
    /\ Len(call.results) = 2
    /\ OrganicResults(call.results[1]) = <<>>
    /\ Len(OrganicResults(call.results[2])) = 2

\* a record's published date is not available: no key, or the extractor's null
PublishedNotAvailable(r) == "published" \notin DOMAIN r \/ r.published = None

\* C7 (as claimed): every organic result without an available published date
\* is rendered "Published Date: Not Available", every other with its date.
C7_NotAvailable ==
    fmt.done /\ ~Truthy(fmt.exc) =>
        LET organic == AllOrganic(fmt.responses)
            lines == PublishedLines(fmt.out)
        IN  /\ Len(lines) = Len(organic)
            /\ \A k \in 1..Len(organic) :
                   lines[k][2] = IF PublishedNotAvailable(organic[k])
                                 THEN "Not Available"
                                 ELSE organic[k].published.v

\* the session of a client was never initialized
NeverInitialized(self) == ~Truthy(self.browser) /\ ~Truthy(self.context)

\* the session of a client was closed by close()
Closed(self) ==
    /\ Truthy(self.browser) /\ ~self.browser.open
    /\ Truthy(self.context) /\ ~self.context.open

\* C8 (as claimed): search() on a session that is not active (never
\* initialized, or closed) runs initialize() first: it launches a browser
\* before anything else and never opens the query page on a closed context.
C8_SearchInitializesFirst ==
    last.op = "search" /\ (NeverInitialized(last.pre) \/ Closed(last.pre)) =>
        /\ last.trace # <<>>
        /\ last.trace[1] \in {"launch", "launch!"}
        /\ \A k \in 1..Len(last.trace) : last.trace[k] # "new_page_on_closed"

\* C9 (as claimed): close() on a session that was never initialized, or that a
\* close() has just closed, raises nothing and issues no close operation.
C9_CloseIdempotent ==
    last.op = "close" /\ (NeverInitialized(last.pre) \/ Closed(last.pre)) =>
        /\ last.exc = None
        /\ last.trace = <<>>

\* C10 (as claimed): BrowserSearchClient() with no url and no token in the
\* environment raises ValueError, and no client has an authentication URL
\* built from a missing token.
C10_MissingTokenRaises ==
    /\ last.op = "__init__" /\ last.arg = None /\ ~Truthy(environ) =>
           last.exc.ty = "exception" /\ last.exc.cls = "ValueError"
    /\ Truthy(search_client) => search_client.url # PyStr(TokenUrl(""))

\* the operations of a trace that launched a browser
Launched(trace) == \E k \in 1..Len(trace) : trace[k] = "launch"

\* C11 (as claimed): at most one session is alive: no browser is launched
\* while the one launched before is still open, and none is left running
\* without a reference.
C11_OneSession ==
    /\ orphans = 0
    /\ last.op \in {"initialize", "search"} /\ Launched(last.trace) =>
           ~IsOpen(last.pre.browser)

\* the positions of ops, up to p, where search_all awaited search()
Attempts(ops, p) == {q \in 1..p : ops[q].op = "search"}

Largest(S) == CHOOSE q \in S : \A x \in S : x <= q

\* C17: in one call the queries are attempted in input order, each at most
\* max_retries times, the next query only after the one before succeeded; and
\* between a failed attempt and the next attempt of the same query search_all
\* awaits close() and then initialize(), once each and nothing else.
C17_OrderedRetries ==
    \A p \in 1..Len(call.ops) :
        call.ops[p].op = "search" =>
            LET before == Attempts(call.ops, p - 1)
                i == call.ops[p].i
            IN  /\ Cardinality({q \in Attempts(call.ops, p) : call.ops[q].i = i})
                     <= max_retries
                /\ IF before = {}
                   THEN i = 1 /\ p = 2 /\ call.ops[1] = [op |-> "initialize", i |-> 0, ok |-> TRUE]
                   ELSE LET q == Largest(before)
                        IN  IF call.ops[q].ok
                            THEN i = call.ops[q].i + 1 /\ p = q + 1
                            ELSE /\ i = call.ops[q].i
                                 /\ p = q + 3
                                 /\ call.ops[q + 1] = [op |-> "close", i |-> 0, ok |-> TRUE]
                                 /\ call.ops[q + 2] = [op |-> "initialize", i |-> 0, ok |-> TRUE]

\* C17 witness: the first query succeeded at its second attempt, the second
\* at its third
C17_Witness ==
    /\ Len(call.queries) = 2
    /\ call.failed = <<1, 2>>
    /\ Len(call.results) = 2
    /\ Len(call.ops) = 1 + 4 + 7

\* the pages open after the operations of a trace, none open before it
RECURSIVE OpenPages(_)
OpenPages(trace) ==
    IF trace = <<>> THEN 0
    ELSE LET n == OpenPages(SubSeq(trace, 1, Len(trace) - 1))
             e == trace[Len(trace)]
         IN  IF e = "new_page" THEN n + 1
             ELSE IF e = "page_close" THEN n - 1
             ELSE n

\* C18: when initialize() or search() returns or raises, every page it opened
\* is closed, and it never closes a page it did not open; so no page is open
\* between operations.
C18_PagesClosed ==
    last.op \in {"initialize", "search"} =>
        /\ OpenPages(last.trace) = 0
        /\ \A k \in 1..Len(last.trace) : OpenPages(SubSeq(last.trace, 1, k)) \in {0, 1}

\* C18 witness: a search() that initialized lazily and whose query page failed
C18_Witness ==
    /\ last.op = "search"
    /\ last.trace = <<"launch", "new_context", "new_page", "goto_auth", "page_close",
                      "new_page", "goto_query!", "page_close">>
    /\ Truthy(last.exc)

\* the operations of a trace that navigated a query page
Navigated(trace) == \E k \in 1..Len(trace) : trace[k] \in {"goto_query", "goto_query!"}

\* C19 (as claimed): search() navigates a query page only on a context whose
\* authentication navigation succeeded; after a failed initialize() it
\* initializes again first.
C19_ActiveOnlyAuthenticated ==
    last.op = "search" /\ Navigated(last.trace) => search_client.context.authed

(* -------------------- cleanup, atexit and the signals ------------------ *)

\* the timeout of cleanup's wait, in seconds
cleanup_timeout == 30

\* the concurrent future of a coroutine handed to the loop: finished,
\* finished with an exception, or not finished
Future(state, exc) == [state |-> state, exc |-> exc]

\* a wait that blocks until the coroutine finishes: "future.result()"
future_result_forever(fut, timeout) ==
    IF fut.state = "pending" THEN [exc |-> None, blocked |-> TRUE]
    ELSE [exc |-> fut.exc, blocked |-> FALSE]

\* future.result(timeout=...): the coroutine's exception, or TimeoutError when
\* it has not finished after timeout seconds
future_result(fut, timeout) ==
    IF fut.state = "pending"
    THEN [exc |-> Exception("TimeoutError", ""), blocked |-> FALSE]
    ELSE [exc |-> fut.exc, blocked |-> FALSE]

\* "except Exception as e" of cleanup: print and go on
cleanup_except_Exception(e) == e.cls \in ExceptionClasses

\* what the browser does to cleanup's close(): it finishes within the wait or
\* it does not
WaitOutcomes == {"finished", "timeout"}

\* cleanup(): the client and the loop after it, how many close() bodies ran,
\* the exception it printed, and whether it let an exception out or never
\* returned
CleanupResult(client, lp, r, ran, caught, escaped, blocked) ==
    [client |-> client, loop |-> lp, r |-> r, ran |-> ran, caught |-> caught,
     escaped |-> escaped, blocked |-> blocked]

cleanup(client, lp, closeOutcome, waitOutcome) ==
    LET nothing == Result(client, None, None, <<>>, 0)
    IN  IF ~Truthy(client) \/ lp = "None"
        THEN CleanupResult(client, lp, nothing, 0, None, FALSE, FALSE)
        ELSE
        LET started == lp = "running"
            r == IF started /\ waitOutcome = "finished" THEN close(client, closeOutcome)
                 ELSE nothing
            fut == IF ~started \/ waitOutcome = "timeout" THEN Future("pending", None)
                   ELSE IF Truthy(r.exc) THEN Future("raised", r.exc)
                   ELSE Future("done", None)
            w == future_result(fut, cleanup_timeout)
            ran == IF started THEN 1 ELSE 0
        IN  IF w.blocked
            THEN CleanupResult(r.self, lp, r, ran, None, FALSE, TRUE)
            ELSE IF Truthy(w.exc)
            THEN IF cleanup_except_Exception(w.exc)
                 THEN CleanupResult(r.self, lp, r, ran, w.exc, FALSE, FALSE)
                 ELSE CleanupResult(r.self, lp, r, ran, None, TRUE, FALSE)
            ELSE CleanupResult(r.self, "stopped", r, ran, None, FALSE, FALSE)

\* the process after one cleanup()
Cleaned(p, c, pc) ==
    [p EXCEPT !.pc = IF c.blocked THEN "blocked" ELSE pc,
              !.cleanups = @ + 1,
              !.close_runs = @ + c.ran,
              !.seen = IF Truthy(c.caught) THEN @ \cup {c.caught.cls} ELSE @,
              !.escaped = @ \/ c.escaped,
              !.blocked = @ \/ c.blocked]

\* one cleanup() run by the process, which then goes on to pc
RunCleanup(closeOutcome, waitOutcome, pc) ==
    LET c == cleanup(search_client, loop, closeOutcome, waitOutcome)
    IN  /\ search_client' = c.client
        /\ loop' = c.loop
        /\ last' = IF c.ran = 1 THEN Did("close", None, search_client, c.r) ELSE last
        /\ proc' = Cleaned(proc, c, pc)

\* SIGINT or SIGTERM, at any point of the main thread: "lambda sig, frame:
\* (cleanup(), exit(0))"; exit(0) unwinds the main thread, a search call in
\* progress with it, and the interpreter runs the atexit hooks
SignalHandler(closeOutcome, waitOutcome) ==
    /\ proc.pc = "running"
    /\ RunCleanup(closeOutcome, waitOutcome, "atexit")
    /\ call' = Idle
    /\ UNCHANGED <<environ, orphans, fmt, host, tasks>>

\* the main thread ends without a signal, between two search calls
NormalExit ==
    /\ proc.pc = "running"
    /\ call.pc = "idle"
    /\ proc' = [proc EXCEPT !.pc = "atexit"]
    /\ UNCHANGED <<environ, search_client, loop, orphans, call, last, fmt, host, tasks>>

\* atexit.register(cleanup)
AtExit(closeOutcome, waitOutcome) ==
    /\ proc.pc = "atexit"
    /\ RunCleanup(closeOutcome, waitOutcome, "exited")
    /\ UNCHANGED <<environ, orphans, call, fmt, host, tasks>>

\* the search tool serves calls until the process is told to end
Serve ==
    /\ proc.pc = "running"
    /\ Next

NextExit ==
    \/ Serve
    \/ \E co \in CloseOutcomes : \E wo \in WaitOutcomes : SignalHandler(co, wo)
    \/ NormalExit
    \/ \E co \in CloseOutcomes : \E wo \in WaitOutcomes : AtExit(co, wo)

SpecExit == Init /\ [][NextExit]_vars

\* C12 (as claimed): when the process has exited and a session handle exists,
\* close() was executed exactly once, across the signal handler and the
\* atexit hook.
C12_ClosedExactlyOnce ==
    proc.pc = "exited" /\ Truthy(search_client) => proc.close_runs = 1

\* C13: cleanup() always returns: it never lets an exception out and never
\* waits without bound, whether close() finished, raised or timed out.
C13_CleanupReturns == ~proc.escaped /\ ~proc.blocked /\ proc.pc # "blocked"

\* C13 witness: the process exited after one cleanup() that caught close()'s
\* exception and one that caught the wait's TimeoutError
C13_Witness ==
    /\ proc.pc = "exited"
    /\ proc.cleanups = 2
    /\ proc.seen = {"Error", "TimeoutError"}

\* C20 (as claimed): after cleanup() has run, no background loop is running.
C20_LoopStopped == proc.cleanups >= 1 => loop \in {"None", "stopped"}

(* ------------------- get_event_loop and run_async --------------------- *)
\* host.loop is the global _loop (0 is None, else an index of host.loops);
\* host.loops[l].running says that a thread runs loop l; host.workers are the
\* threads started with loop_thread_func; host.callers[c] is the thread c
\* inside run_async, its loop the one get_event_loop returned to it.

\* a caller thread enters run_async -> get_event_loop: "if _loop is None"
GetEventLoopCheck(c) ==
    /\ host.callers[c].pc = "idle"
    /\ host' = [host EXCEPT !.callers[c].pc =
                   IF host.loop = 0 THEN "create" ELSE "return"]
    /\ UNCHANGED <<environ, search_client, loop, orphans, call, last, fmt, proc, tasks>>

\* "_loop = asyncio.new_event_loop()"
NewEventLoop(c) ==
    /\ host.callers[c].pc = "create"
    /\ host' = [host EXCEPT !.loops = Append(@, [running |-> FALSE]),
                            !.loop = Len(host.loops) + 1,
                            !.callers[c].pc = "start"]
    /\ UNCHANGED <<environ, search_client, loop, orphans, call, last, fmt, proc, tasks>>

\* "_loop_thread = threading.Thread(target=loop_thread_func, daemon=True)" and
\* "_loop_thread.start()": the thread runs when the scheduler lets it
ThreadStart(c) ==
    /\ host.callers[c].pc = "start"
    /\ host' = [host EXCEPT !.workers = Append(@, [pc |-> "started", loop |-> 0]),
                            !.callers[c].pc = "return"]
    /\ UNCHANGED <<environ, search_client, loop, orphans, call, last, fmt, proc, tasks>>

\* loop_thread_func: "asyncio.set_event_loop(_loop)" and "_loop.run_forever()"
\* read the global _loop when the thread runs; run_forever() on a loop that
\* already runs raises RuntimeError and the thread ends
LoopThreadFunc(w) ==
    /\ host.workers[w].pc = "started"
    /\ host' = IF host.loops[host.loop].running
               THEN [host EXCEPT !.workers[w] = [pc |-> "ended", loop |-> host.loop]]
               ELSE [host EXCEPT !.workers[w] = [pc |-> "run_forever", loop |-> host.loop],
                                 !.loops[host.loop].running = TRUE]
    /\ UNCHANGED <<environ, search_client, loop, orphans, call, last, fmt, proc, tasks>>

\* "return _loop": the global as it is now
GetEventLoopReturn(c) ==
    /\ host.callers[c].pc = "return"
    /\ host' = [host EXCEPT !.callers[c] = [pc |-> "submit", loop |-> host.loop]]
    /\ UNCHANGED <<environ, search_client, loop, orphans, call, last, fmt, proc, tasks>>

\* "future = asyncio.run_coroutine_threadsafe(coro, loop)" and the caller
\* starts to wait in "future.result()"
RunCoroutineThreadsafe(c) ==
    /\ host.callers[c].pc = "submit"
    /\ host' = [host EXCEPT !.callers[c].pc = "wait"]
    /\ UNCHANGED <<environ, search_client, loop, orphans, call, last, fmt, proc, tasks>>

\* the loop's thread runs the coroutine to its end and "future.result()"
\* returns to the caller
FutureResult(c) ==
    /\ host.callers[c].pc = "wait"
    /\ host.loops[host.callers[c].loop].running
    /\ host' = [host EXCEPT !.callers[c] = [pc |-> "idle", loop |-> 0]]
    /\ UNCHANGED <<environ, search_client, loop, orphans, call, last, fmt, proc, tasks>>

NextHost ==
    \/ \E c \in Callers : GetEventLoopCheck(c)
    \/ \E c \in Callers : NewEventLoop(c)
    \/ \E c \in Callers : ThreadStart(c)
    \/ \E w \in 1..Len(host.workers) : LoopThreadFunc(w)
    \/ \E c \in Callers : GetEventLoopReturn(c)
    \/ \E c \in Callers : RunCoroutineThreadsafe(c)
    \/ \E c \in Callers : FutureResult(c)

SpecHost == Init /\ [][NextHost]_vars

\* a thread that will run the global _loop is on its way: it is started and
\* has not read _loop yet, or its creator is about to start it
ThreadPending ==
    \/ \E w \in 1..Len(host.workers) : host.workers[w].pc = "started"
    \/ \E c \in Callers : host.callers[c].pc = "start"

\* C14 (as claimed): no caller waits on a loop that no thread runs and no
\* thread will ever run: the loop a caller waits on is running, or it is the
\* global _loop and a thread that will run it is on its way.
C14_SubmittedToRunningLoop ==
    \A c \in Callers :
        host.callers[c].pc = "wait" =>
            LET l == host.callers[c].loop
            IN  \/ host.loops[l].running
                \/ l = host.loop /\ ThreadPending

\* C15 (as claimed): one loop object exists, one thread was started for it,
\* and every caller that got a loop got that one.
C15_OneLoopOneThread ==
    /\ Len(host.loops) <= 1
    /\ Len(host.workers) <= 1
    /\ \A c \in Callers : host.callers[c].pc \in {"submit", "wait"} =>
           host.callers[c].loop = host.loop

(* --------------- concurrent search calls on the one loop --------------- *)
\* tasks[c] is the search_all coroutine of caller c's search(["a"]) on the
\* background loop. The loop switches between coroutines at their awaits, so
\* a client method that another coroutine awaits may begin before this one's
\* has ended; a method's effect on the client is taken when it ends.

\* the pc of a coroutine inside the method it is about to await
Awaiting ==
    [initialize |-> "initializing", attempt |-> "navigating",
     close |-> "closing", reinitialize |-> "reinitializing"]

\* search(["a"]) by caller c: lines 238-253, and run_async(search_all())
TaskEnter(c) ==
    /\ tasks[c].pc = "idle"
    /\ LET e == SearchEnter(<<"a">>)
       IN  /\ e.call.submitted
           /\ search_client' = e.client
           /\ loop' = "running"
           /\ tasks' = [tasks EXCEPT ![c] = [pc |-> "initialize", attempt |-> 0]]
    /\ UNCHANGED <<environ, orphans, call, last, fmt, proc, host>>

\* the coroutine awaits initialize(), search(query) or close(): the method
\* runs up to its first await on the browser. search() on a closed context
\* raises at new_page() and is over at once (TaskSearchEnd)
TaskBegin(c) ==
    /\ tasks[c].pc \in DOMAIN Awaiting
    /\ tasks[c].pc = "attempt" => IsOpen(search_client.context)
    /\ tasks' = [tasks EXCEPT ![c].pc = Awaiting[tasks[c].pc]]
    /\ UNCHANGED <<environ, search_client, loop, orphans, call, last, fmt, proc, host>>

\* initialize() ends: at line 258 or in the except block at line 285
TaskInitializeEnd(c, outcome) ==
    /\ tasks[c].pc \in {"initializing", "reinitializing"}
    /\ MayLaunch(search_client, outcome)
    /\ LET r == initialize(search_client, outcome)
       IN  /\ search_client' = r.self
           /\ orphans' = orphans + r.leaked
           /\ last' = Did("initialize", None, search_client, r)
           /\ tasks' = IF Truthy(r.exc)
                       THEN [tasks EXCEPT ![c] = [pc |-> "idle", attempt |-> 0]]
                       ELSE IF tasks[c].pc = "initializing"
                       THEN [tasks EXCEPT ![c] = [pc |-> "attempt", attempt |-> 0]]
                       ELSE [tasks EXCEPT ![c] = [pc |-> "attempt", attempt |-> @.attempt + 1]]
    /\ UNCHANGED <<environ, loop, call, fmt, proc, host>>

\* search("a") ends: its page was open on the shared context since TaskBegin,
\* or the context was closed and new_page() raised; a context that another
\* coroutine closed meanwhile fails the page
TaskSearchEnd(c, initOutcome, page) ==
    /\ \/ tasks[c].pc = "navigating"
       \/ tasks[c].pc = "attempt" /\ ~IsOpen(search_client.context)
    /\ NotInitialized(search_client) => MayLaunch(search_client, initOutcome)
    /\ LET r == search(search_client, "a", initOutcome, page)
       IN  /\ search_client' = r.self
           /\ orphans' = orphans + r.leaked
           /\ last' = Did("search", PyStr("a"), search_client, r)
           /\ tasks' = IF ~Truthy(r.exc) \/ LastAttempt(tasks[c].attempt)
                       THEN [tasks EXCEPT ![c] = [pc |-> "idle", attempt |-> 0]]
                       ELSE [tasks EXCEPT ![c].pc = "close"]
    /\ UNCHANGED <<environ, loop, call, fmt, proc, host>>

\* close() in the except block ends
TaskCloseEnd(c, outcome) ==
    /\ tasks[c].pc = "closing"
    /\ LET r == close(search_client, outcome)
       IN  /\ search_client' = r.self
           /\ last' = Did("close", None, search_client, r)
           /\ tasks' = IF Truthy(r.exc)
                       THEN [tasks EXCEPT ![c] = [pc |-> "idle", attempt |-> 0]]
                       ELSE [tasks EXCEPT ![c].pc = "reinitialize"]
    /\ UNCHANGED <<environ, loop, orphans, call, fmt, proc, host>>

NextConcurrent ==
    \/ \E c \in Callers : TaskEnter(c)
    \/ \E c \in Callers : TaskBegin(c)
    \/ \E c \in Callers : \E outcome \in InitOutcomes : TaskInitializeEnd(c, outcome)
    \/ \E c \in Callers : \E outcome \in InitOutcomes : \E page \in Pages(1) :
          TaskSearchEnd(c, outcome, page)
    \/ \E c \in Callers : \E outcome \in CloseOutcomes : TaskCloseEnd(c, outcome)

SpecConcurrent == Init /\ [][NextConcurrent]_vars

\* C16 (as claimed): while one call has a query page open on the shared
\* context, no other call is navigating on, initializing or closing the
\* session.
C16_Serialized ==
    \A c, d \in Callers :
        c # d /\ tasks[c].pc = "navigating" =>
            tasks[d].pc \notin {"navigating", "initializing", "reinitializing", "closing"}

====
